---- MODULE Spec2Model ----
(***************************************************************************)
(* Model of the Memory class of src/memory.js: a list of nodes addressed   *)
(* by (xx, yy, zz), each holding a reference to a 2D array (an array of    *)
(* row arrays) that grows on out-of-range writes.                          *)
(*                                                                         *)
(* JavaScript arrays are objects handled by reference, so the model keeps  *)
(* a heap: `mats` are the outer arrays (sequences of row references) and   *)
(* `rows` the row arrays.  A node's value is a reference into `mats`.      *)
(* References are numbered canonically (in order of first use from the     *)
(* node list) after every operation; unreachable objects are dropped.      *)
(***************************************************************************)
EXTENDS Integers, Sequences, FiniteSets, TLC

VARIABLES nodes, usedAddresses, mats, rows, last, ops

vars == <<nodes, usedAddresses, mats, rows, last, ops>>

-----------------------------------------------------------------------------
(* Bounds of the model *)

\* number of calls made on the store
MaxOps == 3
\* largest row/column index passed to set and get
MaxIdx == 1
\* largest number of rows, and of columns, of a matrix passed to setMatrix
MaxDim == 2

\* node addresses used by the caller
Addrs == { <<0, 0, 0>>, <<-1, 2, 10>> }
\* values written by set
Vals == { 1, 2 }
\* negative indices passed to set and get
NegIdx == { -2, -1 }
RowIdx == { -1 } \cup (0 .. MaxIdx)
ColIdx == NegIdx \cup (0 .. MaxIdx)
GetIdx == { -1 } \cup (0 .. MaxIdx + 1)

\* what JavaScript reads from an array hole or a missing property
Undefined == -1

-----------------------------------------------------------------------------
(* Helpers for JavaScript arrays *)

Max(a, b) == IF a >= b THEN a ELSE b

\* Array(n).fill(0)
RECURSIVE Zeros(_)
Zeros(n) == IF n <= 0 THEN <<>> ELSE Append(Zeros(n - 1), 0)

\* n array holes
RECURSIVE Holes(_)
Holes(n) == IF n <= 0 THEN <<>> ELSE Append(Holes(n - 1), Undefined)

\* a row array without any non-index property
NoProps == [i \in NegIdx |-> Undefined]

\* mutant: the row is made by Array() and holds no cell
NewRowEmpty(cols) == [cells |-> <<>>, props |-> NoProps]

NewRow(cols) == [cells |-> Zeros(cols), props |-> NoProps]

\* position of the first element of s equal to x, 0 when there is none
RECURSIVE IndexOfFrom(_, _, _)
IndexOfFrom(s, x, i) ==
    IF i > Len(s) THEN 0
    ELSE IF s[i] = x THEN i
    ELSE IndexOfFrom(s, x, i + 1)

IndexOf(s, x) == IndexOfFrom(s, x, 1)

\* s without the repetitions of its elements, first occurrences kept
RECURSIVE DedupFrom(_, _, _)
DedupFrom(s, i, acc) ==
    IF i > Len(s) THEN acc
    ELSE DedupFrom(s, i + 1,
                   IF IndexOf(acc, s[i]) = 0 THEN Append(acc, s[i]) ELSE acc)

Dedup(s) == DedupFrom(s, 1, <<>>)

\* the array s as a tuple, element by element
RECURSIVE TupleFrom(_, _)
TupleFrom(s, i) == IF i > Len(s) THEN <<>> ELSE <<s[i]>> \o TupleFrom(s, i + 1)

Tuple(s) == TupleFrom(s, 1)

RECURSIVE Concat(_, _)
Concat(ss, i) == IF i > Len(ss) THEN <<>> ELSE ss[i] \o Concat(ss, i + 1)

\* decimal digits of a template literal substitution
DigitStr == << "0", "1", "2", "3", "4", "5", "6", "7", "8", "9" >>

RECURSIVE NatStr(_)
NatStr(n) == IF n < 10 THEN DigitStr[n + 1]
             ELSE NatStr(n \div 10) \o DigitStr[(n % 10) + 1]

IntStr(n) == IF n < 0 THEN "-" \o NatStr(0 - n) ELSE NatStr(n)

-----------------------------------------------------------------------------
(* The store as a value: st.nodes, st.used, st.mats, st.rows *)

Store == [nodes |-> nodes, used |-> usedAddresses, mats |-> mats, rows |-> rows]

\* new Memory()
EmptyStore == [nodes |-> <<>>, used |-> {}, mats |-> <<>>, rows |-> <<>>]

\* References renumbered in order of first use; unreachable objects dropped.
Normalize(st) ==
    LET matOrder == Dedup([i \in 1 .. Len(st.nodes) |-> st.nodes[i].value])
        rowOrder == Dedup(Concat([i \in 1 .. Len(matOrder) |-> st.mats[matOrder[i]]], 1))
    IN [nodes |-> Tuple([i \in 1 .. Len(st.nodes) |->
                     [xx |-> st.nodes[i].xx, yy |-> st.nodes[i].yy,
                      zz |-> st.nodes[i].zz,
                      value |-> IndexOf(matOrder, st.nodes[i].value)]]),
        used  |-> st.used,
        mats  |-> Tuple([i \in 1 .. Len(matOrder) |->
                     Tuple([j \in 1 .. Len(st.mats[matOrder[i]]) |->
                        IndexOf(rowOrder, st.mats[matOrder[i]][j])])]),
        rows  |-> Tuple([i \in 1 .. Len(rowOrder) |->
                     [cells |-> Tuple(st.rows[rowOrder[i]].cells),
                      props |-> [k \in NegIdx |-> st.rows[rowOrder[i]].props[k]]]])]

\* the 2D array behind matrix reference m, as a sequence of cell sequences
GridOf(st, m) ==
    Tuple([j \in 1 .. Len(st.mats[m]) |-> Tuple(st.rows[st.mats[m][j]].cells)])

generateAddress(xx, yy, zz) == IntStr(xx) \o "," \o IntStr(yy) \o "," \o IntStr(zz)

\* index in st.nodes of the first node at (xx, yy, zz); 0 for undefined
RECURSIVE findNodeFrom(_, _, _, _, _)
findNodeFrom(st, xx, yy, zz, i) ==
    IF i > Len(st.nodes) THEN 0
    ELSE IF st.nodes[i].xx = xx /\ st.nodes[i].yy = yy /\ st.nodes[i].zz = zz THEN i
    ELSE findNodeFrom(st, xx, yy, zz, i + 1)

findNode(st, xx, yy, zz) == findNodeFrom(st, xx, yy, zz, 1)

\* Array.from({ length: rowCount }, () => Array(cols).fill(0)) appended to the
\* heap: its reference is Len(st.mats) + 1.  A length below 0 counts as 0.
AllocGrid(st, rowCount, cols) ==
    LET n == Max(rowCount, 0)
        base == Len(st.rows)
    IN [st EXCEPT !.rows = @ \o [i \in 1 .. n |-> NewRow(cols)],
                  !.mats = Append(@, [i \in 1 .. n |-> base + i])]

\* mutant: the row count and the column count are passed in the wrong order
createNodeIfNeededSwapped(st, xx, yy, zz, rowCount, cols) ==
    LET i == findNode(st, xx, yy, zz) IN
    IF i # 0 THEN [st |-> st, node |-> i, err |-> "none"]
    ELSE IF cols > 0 /\ rowCount < 0
         THEN [st |-> st, node |-> 0, err |-> "RangeError"]
    ELSE LET a == AllocGrid(st, cols, rowCount)
             node == [xx |-> xx, yy |-> yy, zz |-> zz, value |-> Len(a.mats)]
         IN [st |-> [a EXCEPT !.nodes = Append(@, node),
                              !.used = @ \cup { generateAddress(xx, yy, zz) }],
             node |-> Len(st.nodes) + 1,
             err |-> "none"]

\* mutant: a node that exists gets a new grid of zeros too
createNodeIfNeededReset(st, xx, yy, zz, rowCount, cols) ==
    LET i == findNode(st, xx, yy, zz) IN
    IF rowCount > 0 /\ cols < 0
    THEN [st |-> st, node |-> 0, err |-> "RangeError"]
    ELSE LET a == AllocGrid(st, rowCount, cols)
             node == [xx |-> xx, yy |-> yy, zz |-> zz, value |-> Len(a.mats)]
         IN IF i # 0
            THEN [st |-> [a EXCEPT !.nodes[i].value = Len(a.mats)],
                  node |-> i, err |-> "none"]
            ELSE [st |-> [a EXCEPT !.nodes = Append(@, node),
                                   !.used = @ \cup { generateAddress(xx, yy, zz) }],
                  node |-> Len(st.nodes) + 1,
                  err |-> "none"]

\* mutant: the address of a new node is not added to usedAddresses
createNodeIfNeededNoRegister(st, xx, yy, zz, rowCount, cols) ==
    LET i == findNode(st, xx, yy, zz) IN
    IF i # 0 THEN [st |-> st, node |-> i, err |-> "none"]
    ELSE IF rowCount > 0 /\ cols < 0
         THEN [st |-> st, node |-> 0, err |-> "RangeError"]
    ELSE LET a == AllocGrid(st, rowCount, cols)
             node == [xx |-> xx, yy |-> yy, zz |-> zz, value |-> Len(a.mats)]
         IN [st |-> [a EXCEPT !.nodes = Append(@, node)],
             node |-> Len(st.nodes) + 1,
             err |-> "none"]

\* mutant: a new node is put in front of the node list (unshift for push)
createNodeIfNeededUnshift(st, xx, yy, zz, rowCount, cols) ==
    LET i == findNode(st, xx, yy, zz) IN
    IF i # 0 THEN [st |-> st, node |-> i, err |-> "none"]
    ELSE IF rowCount > 0 /\ cols < 0
         THEN [st |-> st, node |-> 0, err |-> "RangeError"]
    ELSE LET a == AllocGrid(st, rowCount, cols)
             node == [xx |-> xx, yy |-> yy, zz |-> zz, value |-> Len(a.mats)]
         IN [st |-> [a EXCEPT !.nodes = <<node>> \o @,
                              !.used = @ \cup { generateAddress(xx, yy, zz) }],
             node |-> 1,
             err |-> "none"]

createNodeIfNeeded(st, xx, yy, zz, rowCount, cols) ==
    LET i == findNode(st, xx, yy, zz) IN
    IF i # 0 THEN [st |-> st, node |-> i, err |-> "none"]
    ELSE IF rowCount > 0 /\ cols < 0
         THEN \* Array(cols) throws before the node is pushed
              [st |-> st, node |-> 0, err |-> "RangeError"]
    ELSE LET a == AllocGrid(st, rowCount, cols)
             node == [xx |-> xx, yy |-> yy, zz |-> zz, value |-> Len(a.mats)]
         IN [st |-> [a EXCEPT !.nodes = Append(@, node),
                              !.used = @ \cup { generateAddress(xx, yy, zz) }],
             node |-> Len(st.nodes) + 1,
             err |-> "none"]

getAllData(st, xx, yy, zz) ==
    LET i == findNode(st, xx, yy, zz) IN
    IF i = 0 THEN [err |-> "Invalid address", ref |-> 0, grid |-> <<>>]
    ELSE [err |-> "none", ref |-> st.nodes[i].value,
          grid |-> GridOf(st, st.nodes[i].value)]

get(st, xx, yy, zz, rowIndex, colIndex) ==
    LET i == findNode(st, xx, yy, zz) IN
    IF i = 0 THEN [err |-> "Invalid address", val |-> Undefined]
    ELSE LET g == GridOf(st, st.nodes[i].value) IN
         IF /\ rowIndex >= 0 /\ rowIndex < Len(g)
            /\ colIndex >= 0 /\ colIndex < Len(g[rowIndex + 1])
         THEN [err |-> "none", val |-> g[rowIndex + 1][colIndex + 1]]
         ELSE [err |-> "Index out of bounds", val |-> Undefined]

\* mutant: node.value = matrix is missing
setMatrixNoAssign(st, xx, yy, zz, matrix) ==
    LET rowCount == Len(st.mats[matrix])
        cols == IF rowCount > 0 THEN Len(st.rows[st.mats[matrix][1]].cells) ELSE 0
        c == createNodeIfNeeded(st, xx, yy, zz, rowCount, cols)
    IN [st |-> c.st, err |-> "none"]

\* matrix is a reference into st.mats
setMatrix(st, xx, yy, zz, matrix) ==
    LET rowCount == Len(st.mats[matrix])
        cols == IF rowCount > 0 THEN Len(st.rows[st.mats[matrix][1]].cells) ELSE 0
        c == createNodeIfNeeded(st, xx, yy, zz, rowCount, cols)
    IN [st |-> [c.st EXCEPT !.nodes[c.node].value = matrix], err |-> "none"]

\* node.value[r].push(0) while its length is <= colIndex, for every row of m
PadRows(st, m, colIndex) ==
    [st EXCEPT !.rows =
        [r \in 1 .. Len(st.rows) |->
            IF IndexOf(st.mats[m], r) # 0 /\ Len(st.rows[r].cells) <= colIndex
            THEN [st.rows[r] EXCEPT
                    !.cells = @ \o Zeros(colIndex + 1 - Len(st.rows[r].cells))]
            ELSE st.rows[r]]]

\* mutant: the row loop is a do-while, which pushes a row before it tests
expandMatrixIfNeededDoWhile(st, m, rowIndex, colIndex) ==
    LET currentRows == Len(st.mats[m])
        currentCols == IF currentRows > 0
                       THEN Len(st.rows[st.mats[m][1]].cells) ELSE 0
        n == Max(rowIndex + 1 - currentRows, 1)
        base == Len(st.rows)
        grown == [st EXCEPT !.rows = @ \o [i \in 1 .. n |-> NewRow(currentCols)],
                            !.mats[m] = @ \o [i \in 1 .. n |-> base + i]]
        updatedCols == Len(grown.rows[grown.mats[m][1]].cells)
    IN IF colIndex >= updatedCols
       THEN [st |-> PadRows(grown, m, colIndex), err |-> "none"]
       ELSE [st |-> grown, err |-> "none"]

\* mutant: the row loop is missing, only columns grow
expandMatrixIfNeededNoRows(st, m, rowIndex, colIndex) ==
    IF Len(st.mats[m]) = 0
    THEN [st |-> st, err |-> "TypeError"]
    ELSE LET updatedCols == Len(st.rows[st.mats[m][1]].cells) IN
         IF colIndex >= updatedCols
         THEN [st |-> PadRows(st, m, colIndex), err |-> "none"]
         ELSE [st |-> st, err |-> "none"]

\* m is the reference held in node.value
expandMatrixIfNeeded(st, m, rowIndex, colIndex) ==
    LET currentRows == Len(st.mats[m])
        currentCols == IF currentRows > 0
                       THEN Len(st.rows[st.mats[m][1]].cells) ELSE 0
        n == Max(rowIndex + 1 - currentRows, 0)
        base == Len(st.rows)
        grown == [st EXCEPT !.rows = @ \o [i \in 1 .. n |-> NewRow(currentCols)],
                            !.mats[m] = @ \o [i \in 1 .. n |-> base + i]]
    IN IF Len(grown.mats[m]) = 0
       THEN \* node.value[0] is undefined
            [st |-> grown, err |-> "TypeError"]
       ELSE LET updatedCols == Len(grown.rows[grown.mats[m][1]].cells) IN
            IF colIndex >= updatedCols
            THEN [st |-> PadRows(grown, m, colIndex), err |-> "none"]
            ELSE [st |-> grown, err |-> "none"]

\* row[colIndex] = newValue on the row array r
WriteCell(st, r, colIndex, newValue) ==
    LET n == Len(st.rows[r].cells) IN
    IF colIndex < 0
    THEN [st EXCEPT !.rows[r].props[colIndex] = newValue]
    ELSE IF colIndex < n
    THEN [st EXCEPT !.rows[r].cells[colIndex + 1] = newValue]
    ELSE [st EXCEPT !.rows[r].cells = @ \o Holes(colIndex - n) \o <<newValue>>]

set(st, xx, yy, zz, rowIndex, colIndex, newValue) ==
    LET i == findNode(st, xx, yy, zz)
        c == IF i = 0
             THEN createNodeIfNeeded(st, xx, yy, zz, rowIndex + 1, colIndex + 1)
             ELSE [st |-> st, node |-> i, err |-> "none"]
    IN IF c.err # "none" THEN [st |-> c.st, err |-> c.err]
       ELSE LET m == c.st.nodes[c.node].value
                e == expandMatrixIfNeeded(c.st, m, rowIndex, colIndex)
            IN IF e.err # "none" THEN [st |-> e.st, err |-> e.err]
               ELSE IF rowIndex < 0 \/ rowIndex >= Len(e.st.mats[m])
               THEN \* node.value[rowIndex] is undefined
                    [st |-> e.st, err |-> "TypeError"]
               ELSE [st |-> WriteCell(e.st, e.st.mats[m][rowIndex + 1],
                                      colIndex, newValue),
                     err |-> "none"]

\* mutant: a missing node is reported by the sentinel [-1, -1]
getDimensionsSentinel(st, xx, yy, zz) ==
    LET i == findNode(st, xx, yy, zz) IN
    IF i = 0 THEN <<-1, -1>>
    ELSE LET g == GridOf(st, st.nodes[i].value) IN
         <<Len(g), IF Len(g) > 0 THEN Len(g[1]) ELSE 0>>

getDimensions(st, xx, yy, zz) ==
    LET i == findNode(st, xx, yy, zz) IN
    IF i = 0 THEN <<0, 0>>
    ELSE LET g == GridOf(st, st.nodes[i].value) IN
         <<Len(g), IF Len(g) > 0 THEN Len(g[1]) ELSE 0>>

\* mutant: the column loop starts at 1, the first cell of a row is skipped
updateSkipFirst(st) ==
    [st EXCEPT !.rows =
        [r \in 1 .. Len(st.rows) |->
            IF \E i \in 1 .. Len(st.nodes) : IndexOf(st.mats[st.nodes[i].value], r) # 0
            THEN [st.rows[r] EXCEPT
                    !.cells = [k \in 1 .. Len(@) |-> IF k = 1 THEN @[k] ELSE 1]]
            ELSE st.rows[r]]]

\* every cell of every row array reachable from a node becomes 1
update(st) ==
    [st EXCEPT !.rows =
        [r \in 1 .. Len(st.rows) |->
            IF \E i \in 1 .. Len(st.nodes) : IndexOf(st.mats[st.nodes[i].value], r) # 0
            THEN [st.rows[r] EXCEPT !.cells = [k \in 1 .. Len(@) |-> 1]]
            ELSE st.rows[r]]]

-----------------------------------------------------------------------------
(* Matrices the caller builds before handing them to setMatrix *)

\* the row lengths of the matrices the caller writes out: rectangular, ragged
\* and empty ones
Shapes == UNION { [1 .. n -> 0 .. MaxDim] : n \in 0 .. MaxDim }

\* cell (r, c) of a matrix literal; k selects one of two contents
LitCell(r, c, k) == 1 + ((r + c + k) % 2)

LitRow(len, r, k) == [cells |-> [c \in 1 .. len |-> LitCell(r, c, k)], props |-> NoProps]

\* [[...], [...]]: a new outer array of new row arrays, reference Len(mats) + 1
AllocLiteral(st, shape, k) ==
    LET base == Len(st.rows) IN
    [st EXCEPT !.rows = @ \o [r \in 1 .. Len(shape) |-> LitRow(shape[r], r, k)],
               !.mats = Append(@, [r \in 1 .. Len(shape) |-> base + r])]

\* const r = [...]; [r, ..., r]: a new outer array holding one row array n times
AllocSharedRow(st, n, len, k) ==
    LET base == Len(st.rows) IN
    [st EXCEPT !.rows = Append(@, LitRow(len, 1, k)),
               !.mats = Append(@, [r \in 1 .. n |-> base + 1])]

\* [...m]: a new outer array holding the row arrays of the outer array m
AllocSpread(st, m) == [st EXCEPT !.mats = Append(@, st.mats[m])]

-----------------------------------------------------------------------------
(* The state machine: one action per method of Memory that is called on the
   store; generateAddress and findNode are the operators above *)

NoGrid == <<>>

\* the record of the last call: its arguments, what it threw and returned,
\* whether it repeats the call before it (which returned normally), and what
\* findNode and getDimensions said of its address before it
Call(op, a, r, c, v, g, err, ret, retGrid) ==
    [op |-> op, addr |-> a, row |-> r, col |-> c, val |-> v, grid |-> g,
     err |-> err, ret |-> ret, retGrid |-> retGrid,
     again |-> /\ last.op = op /\ last.addr = a /\ last.row = r /\ last.col = c
               /\ last.val = v /\ last.grid = g /\ last.err = "none",
     existed |-> findNode(Store, a[1], a[2], a[3]) # 0,
     pre |-> getDimensions(Store, a[1], a[2], a[3])]

Commit(st) ==
    LET n == Normalize(st) IN
    /\ ops < MaxOps
    /\ ops' = ops + 1
    /\ nodes' = n.nodes
    /\ usedAddresses' = n.used
    /\ mats' = n.mats
    /\ rows' = n.rows

\* a call that assigns nothing
Read ==
    /\ ops < MaxOps
    /\ ops' = ops + 1
    /\ UNCHANGED <<nodes, usedAddresses, mats, rows>>

Init ==
    /\ nodes = EmptyStore.nodes
    /\ usedAddresses = EmptyStore.used
    /\ mats = EmptyStore.mats
    /\ rows = EmptyStore.rows
    /\ ops = 0
    /\ last = [op |-> "new", addr |-> <<0, 0, 0>>, row |-> 0, col |-> 0, val |-> 0,
               grid |-> NoGrid, err |-> "none", ret |-> 0, retGrid |-> NoGrid,
               again |-> FALSE, existed |-> FALSE, pre |-> <<0, 0>>]

Set(a, r, c, v) ==
    LET res == set(Store, a[1], a[2], a[3], r, c, v) IN
    /\ Commit(res.st)
    /\ last' = Call("set", a, r, c, v, NoGrid, res.err, 0, NoGrid)

\* setMatrix(xx, yy, zz, matrix) where matrix is reference m of the heap st
SetMatrixRef(st, a, m) ==
    LET res == setMatrix(st, a[1], a[2], a[3], m) IN
    /\ Commit(res.st)
    /\ last' = Call("setMatrix", a, 0, 0, 0, GridOf(st, m), res.err, 0, NoGrid)

SetMatrixLiteral(a, shape, k) ==
    LET st == AllocLiteral(Store, shape, k) IN SetMatrixRef(st, a, Len(st.mats))

SetMatrixSharedRow(a, n, len, k) ==
    LET st == AllocSharedRow(Store, n, len, k) IN SetMatrixRef(st, a, Len(st.mats))

\* setMatrix(a, getAllData(b))
SetMatrixAlias(a, b) ==
    LET d == getAllData(Store, b[1], b[2], b[3]) IN
    /\ d.err = "none"
    /\ SetMatrixRef(Store, a, d.ref)

\* setMatrix(a, [...getAllData(b)])
SetMatrixSpread(a, b) ==
    LET d == getAllData(Store, b[1], b[2], b[3]) IN
    /\ d.err = "none"
    /\ LET st == AllocSpread(Store, d.ref) IN SetMatrixRef(st, a, Len(st.mats))

Get(a, r, c) ==
    LET res == get(Store, a[1], a[2], a[3], r, c) IN
    /\ Read
    /\ last' = Call("get", a, r, c, 0, NoGrid, res.err, res.val, NoGrid)

GetAllData(a) ==
    LET res == getAllData(Store, a[1], a[2], a[3]) IN
    /\ Read
    /\ last' = Call("getAllData", a, 0, 0, 0, NoGrid, res.err, 0, res.grid)

GetDimensions(a) ==
    LET d == getDimensions(Store, a[1], a[2], a[3]) IN
    /\ Read
    /\ last' = Call("getDimensions", a, d[1], d[2], 0, NoGrid, "none", 0, NoGrid)

CreateNodeIfNeeded(a, rowCount, cols) ==
    LET res == createNodeIfNeeded(Store, a[1], a[2], a[3], rowCount, cols) IN
    /\ Commit(res.st)
    /\ last' = Call("createNodeIfNeeded", a, rowCount, cols, 0, NoGrid, res.err, 0, NoGrid)

\* expandMatrixIfNeeded(findNode(a), rowIndex, colIndex) called by itself
ExpandMatrixIfNeeded(a, r, c) ==
    LET i == findNode(Store, a[1], a[2], a[3])
        res == IF i = 0
               THEN \* node.value of undefined
                    [st |-> Store, err |-> "TypeError"]
               ELSE expandMatrixIfNeeded(Store, nodes[i].value, r, c)
    IN /\ Commit(res.st)
       /\ last' = Call("expandMatrixIfNeeded", a, r, c, 0, NoGrid, res.err, 0, NoGrid)

Update ==
    /\ Commit(update(Store))
    /\ last' = Call("update", <<0, 0, 0>>, 0, 0, 0, NoGrid, "none", 0, NoGrid)

Next ==
    \/ \E a \in Addrs, r \in RowIdx, c \in ColIdx, v \in Vals : Set(a, r, c, v)
    \/ \E a \in Addrs, shape \in Shapes : SetMatrixLiteral(a, shape, 0)
    \/ \E a \in Addrs, n \in 2 .. MaxDim, len \in 1 .. MaxDim :
          SetMatrixSharedRow(a, n, len, 1)
    \/ \E a \in Addrs, b \in Addrs : SetMatrixAlias(a, b)
    \/ \E a \in Addrs, b \in Addrs : SetMatrixSpread(a, b)
    \/ \E a \in Addrs, r \in GetIdx, c \in GetIdx : Get(a, r, c)
    \/ \E a \in Addrs : GetAllData(a)
    \/ \E a \in Addrs : GetDimensions(a)
    \/ \E a \in Addrs, rowCount \in 0 .. MaxIdx, cols \in 0 .. MaxIdx :
          CreateNodeIfNeeded(a, rowCount, cols)
    \/ \E a \in Addrs, r \in RowIdx, c \in ColIdx : ExpandMatrixIfNeeded(a, r, c)
    \/ Update

Spec == Init /\ [][Next]_vars

\* set called with row and column indices that are not negative, on a store
\* that has seen nothing else
SetNonNeg(a, r, c, v) == r >= 0 /\ c >= 0 /\ Set(a, r, c, v)

NextSet == \E a \in Addrs, r \in 0 .. MaxIdx, c \in 0 .. MaxIdx, v \in Vals : SetNonNeg(a, r, c, v)

SpecSet == Init /\ [][NextSet]_vars

-----------------------------------------------------------------------------
(* Observations used by the properties *)

StoreNext == [nodes |-> nodes', used |-> usedAddresses', mats |-> mats', rows |-> rows']

Exists(st, a) == findNode(st, a[1], a[2], a[3]) # 0

Grid(st, a) == getAllData(st, a[1], a[2], a[3]).grid

Dims(st, a) == getDimensions(st, a[1], a[2], a[3])

Rectangular(g) == \A i, j \in 1 .. Len(g) : Len(g[i]) = Len(g[j])

RowsOf(g) == Len(g)

ColsOf(g) == IF Len(g) > 0 THEN Len(g[1]) ELSE 0

\* the last call was set(addr, row, col, val) with row, col >= 0
SetCall(l) == l.op = "set" /\ l.row >= 0 /\ l.col >= 0

-----------------------------------------------------------------------------
(* C1 *)

\* C1: from an empty store, after every call of any sequence of set calls with
\* non-negative row and col, all rows of the grid at every address have the
\* same length.
C1_Rectangularity ==
    \A a \in Addrs : Exists(Store, a) => Rectangular(Grid(Store, a))

\* a set has grown an existing grid in both directions
C1_Witness ==
    /\ SetCall(last) /\ last.existed /\ last.err = "none"
    /\ Dims(Store, last.addr)[1] > last.pre[1]
    /\ Dims(Store, last.addr)[2] > last.pre[2]
    /\ last.pre[1] > 0

-----------------------------------------------------------------------------
(* C2 *)

\* C2: a set(addr, r1, c1, v1) with r1, c1 >= 0 on an existing node leaves every
\* cell that was inside the grid before the call, other than (r1, c1), at the
\* same row and column with the same value.
C2_ValuePreservation ==
    [][ (SetCall(last') /\ last'.existed) =>
          LET g == Grid(Store, last'.addr)
              h == Grid(StoreNext, last'.addr)
          IN \A r \in 1 .. Len(g) : \A c \in 1 .. Len(g[r]) :
                (r - 1 # last'.row \/ c - 1 # last'.col) =>
                    /\ r <= Len(h)
                    /\ c <= Len(h[r])
                    /\ h[r][c] = g[r][c] ]_vars

-----------------------------------------------------------------------------
(* C3 *)

\* C3: a set(addr, row, col, value) with row, col >= 0 on an existing node whose
\* grid is rectangular with R rows and C columns leaves a grid of exactly
\* max(R, row+1) rows of max(C, col+1) columns, in which every newly added cell
\* other than (row, col) is 0 and cell (row, col) is value.
C3_ExpansionResult ==
    [][ (SetCall(last') /\ last'.existed /\ Rectangular(Grid(Store, last'.addr))) =>
          LET g == Grid(Store, last'.addr)
              h == Grid(StoreNext, last'.addr)
              R == RowsOf(g)
              C == ColsOf(g)
          IN /\ last'.err = "none"
             /\ Len(h) = Max(R, last'.row + 1)
             /\ \A r \in 1 .. Len(h) : Len(h[r]) = Max(C, last'.col + 1)
             /\ \A r \in 1 .. Len(h) : \A c \in 1 .. Len(h[r]) :
                   IF r - 1 = last'.row /\ c - 1 = last'.col
                   THEN h[r][c] = last'.val
                   ELSE (r > R \/ c > C) => h[r][c] = 0 ]_vars

-----------------------------------------------------------------------------
(* C4 *)

\* C4: a set(addr, row, col, value) with row, col >= 0 on an address without a
\* node appends exactly one node, at addr, whose grid has row+1 rows of col+1
\* columns, all 0 except cell (row, col), which is value.
C4_SetOnMissingNode ==
    [][ (SetCall(last') /\ ~last'.existed) =>
          LET h == Grid(StoreNext, last'.addr) IN
          /\ last'.err = "none"
          /\ Len(nodes') = Len(nodes) + 1
          /\ findNode(StoreNext, last'.addr[1], last'.addr[2], last'.addr[3]) = Len(nodes')
          /\ Len(h) = last'.row + 1
          /\ \A r \in 1 .. Len(h) :
                /\ Len(h[r]) = last'.col + 1
                /\ \A c \in 1 .. Len(h[r]) :
                      h[r][c] = IF r - 1 = last'.row /\ c - 1 = last'.col
                                THEN last'.val ELSE 0 ]_vars

\* a set has created a node with more than one row and more than one column
C4_Witness ==
    /\ SetCall(last) /\ ~last.existed /\ last.err = "none"
    /\ last.row = MaxIdx /\ last.col = MaxIdx
    /\ Dims(Store, last.addr) = <<MaxIdx + 1, MaxIdx + 1>>
    /\ Len(nodes) = 2

-----------------------------------------------------------------------------
(* C5 *)

\* C5: the row count and the column count getDimensions reports for an address
\* never decrease in a step, except in a setMatrix call on that address.
C5_GrowthMonotonicity ==
    [][ \A a \in Addrs :
          ~(last'.op = "setMatrix" /\ last'.addr = a) =>
              /\ Dims(StoreNext, a)[1] >= Dims(Store, a)[1]
              /\ Dims(StoreNext, a)[2] >= Dims(Store, a)[2] ]_vars

\* a set on one address has grown the grid of that address while another
\* address holds a grid
C5_Witness ==
    /\ SetCall(last) /\ last.existed /\ last.err = "none"
    /\ Dims(Store, last.addr)[1] > last.pre[1]
    /\ \E b \in Addrs : b # last.addr /\ Exists(Store, b) /\ Dims(Store, b)[1] > 0

-----------------------------------------------------------------------------
(* C6 *)

\* C6: after setMatrix(addr, M) with M rectangular (the empty matrix included),
\* whatever was at addr before, getAllData(addr) returns a grid equal to M cell
\* for cell and in shape.
C6_RoundTrip ==
    (last.op = "setMatrix" /\ Rectangular(last.grid)) =>
        LET d == getAllData(Store, last.addr[1], last.addr[2], last.addr[3]) IN
        /\ last.err = "none"
        /\ d.err = "none"
        /\ d.grid = last.grid

\* a setMatrix has replaced a larger grid by a smaller, non-empty one
C6_Witness ==
    /\ last.op = "setMatrix" /\ last.existed /\ Rectangular(last.grid)
    /\ last.pre[1] > RowsOf(last.grid) /\ last.pre[2] > ColsOf(last.grid)
    /\ RowsOf(last.grid) > 0 /\ ColsOf(last.grid) > 0

-----------------------------------------------------------------------------
(* C7 *)

\* C7: a set(addr, r, c, v) with r, c >= 0 that repeats the call before it leaves
\* the whole store (node list, address index, every grid) as that call left it.
C7_IdempotentSet ==
    [][ (SetCall(last') /\ last'.again) => StoreNext = Store ]_vars

\* a set that grew a grid has been repeated
C7_Witness ==
    /\ SetCall(last) /\ last.again /\ last.err = "none"
    /\ last.row = MaxIdx /\ last.col = MaxIdx
    /\ Dims(Store, last.addr) = <<MaxIdx + 1, MaxIdx + 1>>
    /\ Len(nodes) = 1

-----------------------------------------------------------------------------
(* C8 *)

\* C8: a set(addr, row, col, value) with row < 0 or col < 0 throws, whether or
\* not a node exists at addr, and changes no grid.
C8_NegativeIndexRejected ==
    [][ (last'.op = "set" /\ (last'.row < 0 \/ last'.col < 0)) =>
          /\ last'.err # "none"
          /\ \A a \in Addrs : Exists(Store, a) =>
                Grid(StoreNext, a) = Grid(Store, a) ]_vars

-----------------------------------------------------------------------------
(* C9 *)

\* C9: a get, getAllData, set or setMatrix call that throws leaves the store
\* (node list, address index, every grid) as it was before the call.
C9_NoPartialApplication ==
    [][ (last'.op \in { "get", "getAllData", "set", "setMatrix" } /\ last'.err # "none")
          => StoreNext = Store ]_vars

-----------------------------------------------------------------------------
(* C10 *)

\* C10: get and getAllData throw "Invalid address" when the address has no
\* node; on an existing node get throws "Index out of bounds" when row is
\* outside [0, rowCount) or col outside [0, colCount), and returns the stored
\* cell otherwise; a read changes no grid.
C10_ReadErrors ==
    [][ (last'.op \in { "get", "getAllData" }) =>
          LET a == last'.addr
              g == Grid(Store, a)
              d == Dims(Store, a)
          IN /\ StoreNext = Store
             /\ ~Exists(Store, a) => last'.err = "Invalid address"
             /\ (Exists(Store, a) /\ last'.op = "getAllData") =>
                   last'.err = "none" /\ last'.retGrid = g
             /\ (Exists(Store, a) /\ last'.op = "get") =>
                   IF \/ last'.row < 0 \/ last'.row >= d[1]
                      \/ last'.col < 0 \/ last'.col >= d[2]
                   THEN last'.err = "Index out of bounds"
                   ELSE /\ last'.err = "none"
                        /\ last'.ret = g[last'.row + 1][last'.col + 1] ]_vars

-----------------------------------------------------------------------------
(* C11 *)

\* C11: in every reachable state, also on a grid of 0 rows or 0 columns, a
\* set(addr, row, col, value) with row, col >= 0 returns without throwing, and
\* get(addr, row, col) then returns value.
C11_WritesNeverFail ==
    [][ SetCall(last') =>
          LET a == last'.addr
              res == get(StoreNext, a[1], a[2], a[3], last'.row, last'.col)
          IN /\ last'.err = "none"
             /\ res.err = "none"
             /\ res.val = last'.val ]_vars

\* a set has written past the end of an existing grid that had no row
C11_Witness ==
    /\ SetCall(last) /\ last.existed /\ last.err = "none"
    /\ last.pre = <<0, 0>>
    /\ last.row = MaxIdx /\ last.col = MaxIdx

-----------------------------------------------------------------------------
(* C12 *)

\* C12: getDimensions on an address without a node returns (0, 0) and does not
\* throw; get, getAllData and getDimensions, throwing or not, leave node list,
\* address index and every grid as they were; the address index changes only
\* in a set, setMatrix or createNodeIfNeeded call.
C12_LazyCreation ==
    [][ /\ (last'.op \in { "get", "getAllData", "getDimensions" }) => StoreNext = Store
        /\ (last'.op = "getDimensions" /\ ~Exists(Store, last'.addr)) =>
              /\ last'.err = "none"
              /\ last'.row = 0 /\ last'.col = 0
              /\ ~Exists(StoreNext, last'.addr)
              /\ generateAddress(last'.addr[1], last'.addr[2], last'.addr[3])
                    \notin usedAddresses'
        /\ usedAddresses' # usedAddresses =>
              last'.op \in { "set", "setMatrix", "createNodeIfNeeded" } ]_vars

\* getDimensions has been asked about an address without a node while another
\* address has one
C12_Witness ==
    /\ last.op = "getDimensions" /\ ~last.existed
    /\ ~Exists(Store, last.addr)
    /\ Len(nodes) = 1

-----------------------------------------------------------------------------
(* C13 *)

\* the addresses of the nodes, in the order of the node list
AddrSeq(ns) == [i \in 1 .. Len(ns) |-> <<ns[i].xx, ns[i].yy, ns[i].zz>>]

\* C13: the node list holds at most one node per address, and the address
\* index holds exactly the addresses of the nodes, one entry per node.
C13_AddressUniqueness ==
    /\ \A i, j \in 1 .. Len(nodes) : AddrSeq(nodes)[i] = AddrSeq(nodes)[j] => i = j
    /\ usedAddresses =
          { generateAddress(nodes[i].xx, nodes[i].yy, nodes[i].zz) : i \in 1 .. Len(nodes) }
    /\ Cardinality(usedAddresses) = Len(nodes)

\* two nodes exist and a write has targeted an address that already had one
C13_Witness ==
    /\ Len(nodes) = 2
    /\ last.op \in { "set", "setMatrix", "createNodeIfNeeded" } /\ last.existed

-----------------------------------------------------------------------------
(* C14 *)

\* C14: in every step the node list keeps its nodes in their order and at most
\* gains one node at its end.
C14_StableCreationOrder ==
    [][ \/ AddrSeq(nodes') = AddrSeq(nodes)
        \/ /\ Len(nodes') = Len(nodes) + 1
           /\ SubSeq(AddrSeq(nodes'), 1, Len(nodes)) = AddrSeq(nodes) ]_vars

\* a second node has been created after the first one
C14_Witness ==
    /\ Len(nodes) = 2
    /\ last.op \in { "set", "setMatrix", "createNodeIfNeeded" } /\ ~last.existed
    /\ AddrSeq(nodes)[2] = last.addr

-----------------------------------------------------------------------------
(* C15 *)

\* C15: after update() every cell of every node is 1, every grid has the shape
\* it had, and node list and address index are unchanged.
C15_Sweep ==
    [][ last'.op = "update" =>
          /\ AddrSeq(nodes') = AddrSeq(nodes)
          /\ usedAddresses' = usedAddresses
          /\ \A a \in Addrs : Exists(Store, a) =>
                LET g == Grid(Store, a)
                    h == Grid(StoreNext, a)
                IN /\ Len(h) = Len(g)
                   /\ \A r \in 1 .. Len(h) :
                         /\ Len(h[r]) = Len(g[r])
                         /\ \A c \in 1 .. Len(h[r]) : h[r][c] = 1 ]_vars

\* update has run over two nodes of different shapes, each with a cell
C15_Witness ==
    /\ last.op = "update"
    /\ Len(nodes) = 2
    /\ \A a \in Addrs : Dims(Store, a)[1] > 0 /\ Dims(Store, a)[2] > 0
    /\ \E a, b \in Addrs : Dims(Store, a) # Dims(Store, b)

-----------------------------------------------------------------------------
(* C16 *)

\* C16: createNodeIfNeeded(addr, initialRows, initialCols) on an address without
\* a node appends exactly one node, whose grid is initialRows rows of
\* initialCols zeros, and registers the address; on an address with a node it
\* leaves the whole store unchanged.
C16_CreateOrGet ==
    [][ last'.op = "createNodeIfNeeded" =>
          LET a == last'.addr
              h == Grid(StoreNext, a)
          IN /\ last'.err = "none"
             /\ Exists(Store, a) => StoreNext = Store
             /\ ~Exists(Store, a) =>
                   /\ Len(nodes') = Len(nodes) + 1
                   /\ SubSeq(AddrSeq(nodes'), 1, Len(nodes)) = AddrSeq(nodes)
                   /\ AddrSeq(nodes')[Len(nodes')] = a
                   /\ usedAddresses' =
                         usedAddresses \cup { generateAddress(a[1], a[2], a[3]) }
                   /\ Len(h) = last'.row
                   /\ \A r \in 1 .. Len(h) : h[r] = Zeros(last'.col) ]_vars

\* createNodeIfNeeded has been called with a smaller size on an address whose
\* node holds a grid with cells
C16_Witness ==
    /\ last.op = "createNodeIfNeeded" /\ last.existed
    /\ last.row < Dims(Store, last.addr)[1]
    /\ last.col < Dims(Store, last.addr)[2]

-----------------------------------------------------------------------------
(* C17 *)

\* C17: a set(addr, row, col, value) with row, col >= 0 on a grid left ragged by
\* setMatrix leaves all rows of the grid at addr with the same length.
C17_RaggedRepaired ==
    [][ (SetCall(last') /\ last'.existed /\ ~Rectangular(Grid(Store, last'.addr)))
          => Rectangular(Grid(StoreNext, last'.addr)) ]_vars

-----------------------------------------------------------------------------
(* C18 *)

\* C18: a set (row, col >= 0) or setMatrix on address A leaves the grid at every
\* other address B as it was, in shape and in every cell.
C18_NodeIsolation ==
    [][ (SetCall(last') \/ last'.op = "setMatrix") =>
          \A b \in Addrs : (b # last'.addr /\ Exists(Store, b)) =>
              Grid(StoreNext, b) = Grid(Store, b) ]_vars

-----------------------------------------------------------------------------
(* C19 *)

\* C19: for every existing node, get(addr, row, col) returns normally exactly
\* when 0 <= row < rowCount and 0 <= col < colCount, with (rowCount, colCount)
\* the pair getDimensions(addr) returns.
C19_GetAgreesWithDimensions ==
    \A a \in Addrs : Exists(Store, a) =>
        \A r \in GetIdx, c \in GetIdx :
            (get(Store, a[1], a[2], a[3], r, c).err = "none")
                <=> (/\ 0 <= r /\ r < Dims(Store, a)[1]
                     /\ 0 <= c /\ c < Dims(Store, a)[2])

====
